---- MODULE Spec2Model ----
(***************************************************************************)
(* CalWid backend (src-tauri): the OAuth token lifecycle of auth.rs        *)
(* (get_access_token, refresh_access_token, perform_oauth_flow,            *)
(* save_token), and the snapshot cache of main.rs (get_data,               *)
(* get_cached_data, complete_task, load_cache, save_cache).                *)
(*                                                                         *)
(* Files on disk are Absent, Partial (created or truncated by fs::write    *)
(* but not yet completely written: such content does not parse) or         *)
(* File(v), the complete serialisation of v.  Every await point, every     *)
(* blocking call and every file-system call of a command is a step of its  *)
(* own, so that a kill of the process or another command can fall between  *)
(* any two of them.                                                        *)
(***************************************************************************)
EXTENDS Integers, Sequences, FiniteSets, TLC

\* ------------------------------------------------------------ bounds
\* How far the clock advances (seconds, from 0).
MaxNow == 1

\* ------------------------------------------------- program constants
\* auth.rs:100  `expires_at > now + 60`
Buffer == 60

\* ------------------------------------------------------------ values
None == [tag |-> "None"]
Some(x) == [tag |-> "Some", val |-> x]
Ok(x) == [tag |-> "Ok", val |-> x]
Err(e) == [tag |-> "Err", err |-> e]
Pending == [tag |-> "Pending"]
Absent == [tag |-> "Absent"]
Partial == [tag |-> "Partial"]
File(x) == [tag |-> "File", val |-> x]

\* Command invocations that may be in flight.
Procs == {"p1", "p2"}

\* Error strings of the code, by the place that formats them.
CredErr == "Failed to read credentials.json"
BindErr == "Failed to start local server"
RecvErr == "Failed to receive OAuth callback"
UrlErr == "Failed to parse callback URL"
NoCodeErr == "No authorization code in callback"
WriteErr == "Failed to write token.json"
PatchErr == "Failed to complete task"

\* The ways a token-endpoint or API request fails: send() errs, the status
\* is not a success, the body does not parse.
RequestFailures == {"send", "status", "json"}

\* auth.rs:237, 241, 247
ExchangeErr(f) ==
    CASE f = "send" -> "Failed to exchange code for token"
      [] f = "status" -> "Token exchange failed"
      [] f = "json" -> "Failed to parse token response"

\* calendar.rs:87, 91, 97
CalendarErr(f) ==
    CASE f = "send" -> "Failed to fetch calendars"
      [] f = "status" -> "Calendar API error"
      [] f = "json" -> "Failed to parse calendar list"

\* tasks.rs:52, 56, 62
TasksErr(f) ==
    CASE f = "send" -> "Failed to fetch task lists"
      [] f = "status" -> "Tasks API error"
      [] f = "json" -> "Failed to parse task lists"

\* Token { access_token, refresh_token: Option, expires_at: Option }
Token(a, r, e) == [access_token |-> a, refresh_token |-> r, expires_at |-> e]

\* Token files the program may find at startup (now = 0).
InitTokens ==
    { Token("a0", r, e) : r \in {None, Some("r0")},
                          e \in {None, Some(Buffer), Some(Buffer + 1)} }

\* TokenResponse { access_token, refresh_token: Option, expires_in: Option }
TokenResponses ==
    [access_token : {"a1"}, refresh_token : {None, Some("r1")},
     expires_in : {None, Some(Buffer + 1)}]

\* What the two fetchers can bring back from the APIs.
FetchedEvents == {<<"e1">>, <<"e2">>}
FetchedTasks == {<<>>, <<"t1">>}

\* CachedData { events, tasks }
CachedData(ev, ts) == [events |-> ev, tasks |-> ts]

\* Cache files the program may find at startup.
InitCacheFiles == {Absent, Partial, File(CachedData(<<"e1">>, <<"t1">>))}

\* CachedData { events: vec![], tasks: vec![] }
EmptyData == CachedData(<<>>, <<>>)

VARIABLES
    now,        \* chrono::Utc::now().timestamp()
    credsOk,    \* credentials.json is readable and parses
    tokenFile,  \* token.json
    cacheFile,  \* cache.json
    cache,      \* AppState.cache: Mutex<Option<CachedData>>, the value
    lock,       \* AppState.cache, the mutex: "free" or the invocation that
                \* holds its guard
    pc,         \* per invocation: position in the command
    evRes,      \* per invocation: events_result of its last get_data
    taskRes,    \* per invocation: tasks_result of its last get_data
    cmd,        \* per invocation: the command invoked last
    ret,        \* per invocation: what that command returned to the UI
    calls,      \* per invocation: get_access_token calls made so far by the
                \* fetcher (get_events, get_tasks, complete_task) it is in
    gpc,        \* per invocation: position in get_access_token
    tok,        \* per invocation: get_access_token's token / new_token
    used,       \* per invocation: refresh_access_token's refresh_token
    resp,       \* per invocation: token_response
    reqs,       \* per invocation: what its last get_access_token call did
                \* (token file read and written, refresh grant sent, OAuth
                \* flow entered, browser opened, exchange sent)
    gatRes,     \* per invocation: what get_access_token returned
    \* get_events, from the calendar list on (SpecEvents)
    events_pc,  \* position in get_events
    calendars,  \* the calendars the `for` loop has still to visit
    responses,  \* what the events request of each visited calendar brought
    all_events, \* get_events' all_events
    events_ret, \* what get_events returned
    \* get_tasks, from the task lists on (SpecTasks)
    tasks_pc,   \* position in get_tasks
    tasklists,  \* the TaskListsResponse
    lists,      \* the task lists the `for` loop has still to visit
    visited,    \* what became of each visited list: skipped, or what its
                \* tasks request brought
    all_tasks,  \* get_tasks' all_tasks
    tasks_ret,  \* what get_tasks returned
    \* perform_oauth_flow and the save_token that follows it (SpecOAuth)
    flow_pc,        \* position in the interactive authorization
    rng,            \* how many verifiers rand::thread_rng() has produced
    code_verifier,  \* perform_oauth_flow's code_verifier
    code_challenge, \* perform_oauth_flow's code_challenge
    redirect_uri,   \* perform_oauth_flow's redirect_uri
    auth_url,       \* the query of the authorization URL given to the browser
    exchange,       \* the form of the authorization-code request sent
    flow_token,     \* the Token perform_oauth_flow returned
    spent,          \* the verifiers of the attempts that are over
    flow_ret        \* what get_access_token returned for this attempt

\* The locals of a command, and those of get_access_token.
cmdVars == <<pc, evRes, taskRes, cmd, ret, calls>>

gatVars == <<gpc, tok, used, resp, reqs, gatRes>>

\* The variables of the component specifications below (SpecEvents,
\* SpecTasks, SpecOAuth); the commands leave them alone.
\* The variables of the commands and of the process they run in.
coreVars ==
    <<now, credsOk, tokenFile, cacheFile, cache, lock, cmdVars, gatVars>>

eventsVars == <<events_pc, calendars, responses, all_events, events_ret>>

tasksVars == <<tasks_pc, tasklists, lists, visited, all_tasks, tasks_ret>>

oauthVars ==
    <<flow_pc, rng, code_verifier, code_challenge, redirect_uri, auth_url,
      exchange, flow_token, spent, flow_ret>>

auxVars == <<eventsVars, tasksVars, oauthVars>>

vars ==
    <<now, credsOk, tokenFile, cacheFile, cache, lock, cmdVars, gatVars,
      auxVars>>

\* ------------------------------------------------------ file access
\* load_token / load_cache: a missing, unreadable or unparseable file is None.
Load(file) == IF file.tag = "File" THEN Some(file.val) ELSE None

load_token == Load(tokenFile)

load_cache == Load(cacheFile)

\* save_token / save_cache go through fs::write: File::create (which creates
\* or truncates the file) followed by write_all.  FileOpened is the content
\* once File::create has succeeded, FileWritten once write_all has.
FileOpened(file) == Partial

FileWritten(v) == File(v)

\* ------------------------------------------------- get_access_token
\* TokenValid with the buffer's comparison off by one (>= for >).
TokenValidAtBuffer(token, t) ==
    /\ token.expires_at # None
    /\ token.expires_at.val >= t + Buffer

\* auth.rs:99-103: the persisted token is used as it is only while
\* expires_at is set and expires_at > now + 60.
TokenValid(token, t) ==
    /\ token.expires_at # None
    /\ token.expires_at.val > t + Buffer

\* RefreshedToken taking the response's refresh_token as it is, without
\* the .or(Some(refresh_token)).
RefreshedTokenAsSent(token_response, refresh_token, t) ==
    Token(token_response.access_token,
          token_response.refresh_token,
          IF token_response.expires_in # None
            THEN Some(t + token_response.expires_in.val)
            ELSE None)

\* auth.rs:153-161: the Token built from a refresh response.
RefreshedToken(token_response, refresh_token, t) ==
    Token(token_response.access_token,
          IF token_response.refresh_token # None
            THEN token_response.refresh_token
            ELSE Some(refresh_token),
          IF token_response.expires_in # None
            THEN Some(t + token_response.expires_in.val)
            ELSE None)

\* auth.rs:249-257: the Token built from an authorization-code response.
ExchangedToken(token_response, t) ==
    Token(token_response.access_token,
          token_response.refresh_token,
          IF token_response.expires_in # None
            THEN Some(t + token_response.expires_in.val)
            ELSE None)

\* get_access_token returns v to its caller.
GatReturn(p, v) ==
    /\ gatRes' = [gatRes EXCEPT ![p] = v]
    /\ gpc' = [gpc EXCEPT ![p] = "done"]
    /\ tok' = [tok EXCEPT ![p] = None]
    /\ used' = [used EXCEPT ![p] = None]
    /\ resp' = [resp EXCEPT ![p] = None]

\* get_access_token moves on to position l, doing what the set r names.
GatGoto(p, l, r) ==
    /\ gpc' = [gpc EXCEPT ![p] = l]
    /\ reqs' = [reqs EXCEPT ![p] = @ \cup r]
    /\ UNCHANGED gatRes

\* GatLoadCredentials reading the token file before it gives up.
GatLoadCredentialsLate(p) ==
    /\ gpc[p] = "start"
    /\ IF credsOk
         THEN /\ GatGoto(p, "load_token", {})
              /\ UNCHANGED <<tok, used, resp>>
         ELSE /\ GatReturn(p, Err(CredErr))
              /\ reqs' = [reqs EXCEPT ![p] = @ \cup {"load_token"}]
    /\ UNCHANGED <<now, credsOk, tokenFile, cacheFile, cache, lock, cmdVars,
                   auxVars>>

\* auth.rs:92: let creds = load_credentials()?;
GatLoadCredentials(p) ==
    /\ gpc[p] = "start"
    /\ IF credsOk
         THEN /\ GatGoto(p, "load_token", {})
              /\ UNCHANGED <<tok, used, resp>>
         ELSE /\ GatReturn(p, Err(CredErr))
              /\ UNCHANGED reqs
    /\ UNCHANGED <<now, credsOk, tokenFile, cacheFile, cache, lock, cmdVars,
                   auxVars>>

\* RefreshFailed propagating the error (a `?` on refresh_access_token).
RefreshFailedAborts(p) ==
    /\ GatReturn(p, Err("Token refresh failed"))
    /\ UNCHANGED reqs

\* auth.rs:112-115: a failed refresh is logged and control falls through
\* to the full OAuth flow.
RefreshFailed(p) ==
    /\ GatGoto(p, "oauth_start", {})
    /\ tok' = [tok EXCEPT ![p] = None]
    /\ used' = [used EXCEPT ![p] = None]
    /\ UNCHANGED resp

\* auth.rs:95-118, up to the refresh request being sent.
GatLoadToken(p) ==
    /\ gpc[p] = "load_token"
    /\ LET token == load_token IN
         IF token # None /\ TokenValid(token.val, now)
           THEN /\ GatReturn(p, Ok(token.val.access_token))
                /\ reqs' = [reqs EXCEPT ![p] = @ \cup {"load_token"}]
           ELSE IF token # None /\ token.val.refresh_token # None
             THEN /\ GatGoto(p, "refresh_wait", {"load_token", "refresh"})
                  /\ tok' = [tok EXCEPT ![p] = token.val]
                  /\ used' = [used EXCEPT ![p] = token.val.refresh_token]
                  /\ UNCHANGED resp
             ELSE /\ GatGoto(p, "oauth_start", {"load_token"})
                  /\ UNCHANGED <<tok, used, resp>>
    /\ UNCHANGED <<now, credsOk, tokenFile, cacheFile, cache, lock, cmdVars,
                   auxVars>>

\* auth.rs:126-162 and 107-116: the token endpoint answers the refresh grant.
RefreshResponse(p) ==
    /\ gpc[p] = "refresh_wait"
    /\ \/ \E f \in RequestFailures : RefreshFailed(p)
       \/ \E token_response \in TokenResponses :
            /\ resp' = [resp EXCEPT ![p] = Some(token_response)]
            /\ tok' = [tok EXCEPT ![p] =
                         RefreshedToken(token_response, used[p].val, now)]
            /\ GatGoto(p, "save_open", {})
            /\ UNCHANGED used
    /\ UNCHANGED <<now, credsOk, tokenFile, cacheFile, cache, lock, cmdVars,
                   auxVars>>

\* auth.rs:164-188: PKCE pair, the loopback listener, the browser.
OAuthStart(p) ==
    /\ gpc[p] = "oauth_start"
    /\ \/ /\ GatReturn(p, Err(BindErr))
          /\ reqs' = [reqs EXCEPT ![p] = @ \cup {"oauth"}]
       \/ /\ GatGoto(p, "oauth_recv", {"oauth", "browser"})
          /\ UNCHANGED <<tok, used, resp>>
    /\ UNCHANGED <<now, credsOk, tokenFile, cacheFile, cache, lock, cmdVars,
                   auxVars>>

\* OAuthCallback sending the exchange request before it looks for the code.
OAuthCallbackExchangesFirst(p) ==
    /\ gpc[p] = "oauth_recv"
    /\ \/ /\ GatReturn(p, Err(RecvErr))
          /\ UNCHANGED reqs
       \/ /\ \E e \in {UrlErr, NoCodeErr} : GatReturn(p, Err(e))
          /\ reqs' = [reqs EXCEPT ![p] = @ \cup {"exchange"}]
       \/ /\ GatGoto(p, "oauth_exchange", {"exchange"})
          /\ UNCHANGED <<tok, used, resp>>
    /\ UNCHANGED <<now, credsOk, tokenFile, cacheFile, cache, lock, cmdVars,
                   auxVars>>

\* OAuthCallback giving up the wait after a while.
OAuthCallbackTimesOut(p) ==
    /\ gpc[p] = "oauth_recv"
    /\ \/ /\ \E e \in {RecvErr, "Timed out waiting for OAuth callback"} :
               GatReturn(p, Err(e))
          /\ UNCHANGED reqs
       \/ /\ \E e \in {UrlErr, NoCodeErr} : GatReturn(p, Err(e))
          /\ UNCHANGED reqs
       \/ /\ GatGoto(p, "oauth_exchange", {"exchange"})
          /\ UNCHANGED <<tok, used, resp>>
    /\ UNCHANGED <<now, credsOk, tokenFile, cacheFile, cache, lock, cmdVars,
                   auxVars>>

\* auth.rs:190-237: server.recv() returns; the code is taken from the
\* request's URL and the exchange request is sent.
OAuthCallback(p) ==
    /\ gpc[p] = "oauth_recv"
    /\ \/ /\ GatReturn(p, Err(RecvErr))
          /\ UNCHANGED reqs
       \/ /\ \E e \in {UrlErr, NoCodeErr} : GatReturn(p, Err(e))
          /\ UNCHANGED reqs
       \/ /\ GatGoto(p, "oauth_exchange", {"exchange"})
          /\ UNCHANGED <<tok, used, resp>>
    /\ UNCHANGED <<now, credsOk, tokenFile, cacheFile, cache, lock, cmdVars,
                   auxVars>>

\* auth.rs:232-257: the token endpoint answers the authorization-code grant.
ExchangeResponse(p) ==
    /\ gpc[p] = "oauth_exchange"
    /\ \/ /\ \E f \in RequestFailures : GatReturn(p, Err(ExchangeErr(f)))
          /\ UNCHANGED reqs
       \/ \E token_response \in TokenResponses :
            /\ resp' = [resp EXCEPT ![p] = Some(token_response)]
            /\ tok' = [tok EXCEPT ![p] = ExchangedToken(token_response, now)]
            /\ GatGoto(p, "save_open", {})
            /\ UNCHANGED used
    /\ UNCHANGED <<now, credsOk, tokenFile, cacheFile, cache, lock, cmdVars,
                   auxVars>>

\* auth.rs:70-76 (save_token), fs::write's File::create.
SaveTokenOpen(p) ==
    /\ gpc[p] = "save_open"
    /\ \/ /\ GatReturn(p, Err(WriteErr))
          /\ reqs' = [reqs EXCEPT ![p] = @ \cup {"save_token"}]
          /\ UNCHANGED tokenFile
       \/ /\ tokenFile' = FileOpened(tokenFile)
          /\ GatGoto(p, "save_write", {"save_token"})
          /\ UNCHANGED <<tok, used, resp>>
    /\ UNCHANGED <<now, credsOk, cacheFile, cache, lock, cmdVars, auxVars>>

\* auth.rs:70-76 (save_token), fs::write's write_all; then auth.rs:110 / 123.
SaveTokenWrite(p) ==
    /\ gpc[p] = "save_write"
    /\ \/ /\ GatReturn(p, Err(WriteErr))
          /\ UNCHANGED tokenFile
       \/ /\ tokenFile' = FileWritten(tok[p])
          /\ GatReturn(p, Ok(tok[p].access_token))
    /\ UNCHANGED <<now, credsOk, cacheFile, cache, lock, cmdVars, reqs,
                   auxVars>>

\* One step of get_access_token.
get_access_token(p) ==
    \/ GatLoadCredentials(p)
    \/ GatLoadToken(p)
    \/ RefreshResponse(p)
    \/ OAuthStart(p)
    \/ OAuthCallback(p)
    \/ ExchangeResponse(p)
    \/ SaveTokenOpen(p)
    \/ SaveTokenWrite(p)

\* A caller invokes get_access_token().await.
CallGat(p) ==
    /\ gpc' = [gpc EXCEPT ![p] = "start"]
    /\ gatRes' = [gatRes EXCEPT ![p] = Pending]
    /\ reqs' = [reqs EXCEPT ![p] = {}]
    /\ UNCHANGED <<tok, used, resp>>

\* The caller takes get_access_token's result.
TakeGat(p) ==
    /\ gpc' = [gpc EXCEPT ![p] = "idle"]
    /\ gatRes' = [gatRes EXCEPT ![p] = Pending]
    /\ reqs' = [reqs EXCEPT ![p] = {}]
    /\ UNCHANGED <<tok, used, resp>>

\* ---------------------------------------------------------- get_data
\* main.rs:50-52 and calendar.rs:119-120: get_data calls get_events, which
\* calls get_access_token.
GetDataCall(p) ==
    /\ pc[p] = "idle"
    /\ pc' = [pc EXCEPT ![p] = "ev_token"]
    /\ cmd' = [cmd EXCEPT ![p] = "get_data"]
    /\ calls' = [calls EXCEPT ![p] = 1]
    /\ CallGat(p)
    /\ UNCHANGED <<now, credsOk, tokenFile, cacheFile, cache, lock, evRes,
                   taskRes, ret, auxVars>>

\* EventsReturn with get_events' error propagated (a `?` on get_events):
\* get_tasks is not called.
EventsReturnAborts(p, r) ==
    /\ evRes' = [evRes EXCEPT ![p] = r]
    /\ calls' = [calls EXCEPT ![p] = 1]
    /\ IF r.tag = "Err"
         THEN /\ pc' = [pc EXCEPT ![p] = "match"]
              /\ TakeGat(p)
         ELSE /\ pc' = [pc EXCEPT ![p] = "tasks_token"]
              /\ CallGat(p)

\* get_events returns r to get_data, which calls get_tasks (main.rs:53),
\* which calls get_access_token (tasks.rs:42).
EventsReturn(p, r) ==
    /\ evRes' = [evRes EXCEPT ![p] = r]
    /\ pc' = [pc EXCEPT ![p] = "tasks_token"]
    /\ calls' = [calls EXCEPT ![p] = 1]
    /\ CallGat(p)

\* calendar.rs:120-123: get_events has its token and calls get_calendars,
\* which calls get_access_token again (calendar.rs:70).
EventsToken(p) ==
    /\ pc[p] = "ev_token"
    /\ gpc[p] = "done"
    /\ IF gatRes[p].tag = "Err"
         THEN EventsReturn(p, Err(gatRes[p].err))
         ELSE /\ pc' = [pc EXCEPT ![p] = "cal_token"]
              /\ calls' = [calls EXCEPT ![p] = @ + 1]
              /\ CallGat(p)
              /\ UNCHANGED evRes
    /\ UNCHANGED <<now, credsOk, tokenFile, cacheFile, cache, lock, taskRes,
                   cmd, ret, auxVars>>

\* calendar.rs:70-87: get_calendars has its token and sends the
\* calendarList request.
CalendarsToken(p) ==
    /\ pc[p] = "cal_token"
    /\ gpc[p] = "done"
    /\ IF gatRes[p].tag = "Err"
         THEN EventsReturn(p, Err(gatRes[p].err))
         ELSE /\ pc' = [pc EXCEPT ![p] = "cal_list"]
              /\ TakeGat(p)
              /\ UNCHANGED <<evRes, calls>>
    /\ UNCHANGED <<now, credsOk, tokenFile, cacheFile, cache, lock, taskRes,
                   cmd, ret, auxVars>>

\* calendar.rs:76-116: the calendar list arrives, or the request fails
\* and get_events fails with it (calendar.rs:123).
CalendarList(p) ==
    /\ pc[p] = "cal_list"
    /\ \/ \E f \in RequestFailures : EventsReturn(p, Err(CalendarErr(f)))
       \/ /\ pc' = [pc EXCEPT ![p] = "ev_fetch"]
          /\ UNCHANGED <<evRes, gatVars, calls>>
    /\ UNCHANGED <<now, credsOk, tokenFile, cacheFile, cache, lock, taskRes,
                   cmd, ret, auxVars>>

\* calendar.rs:133-207: the per-calendar requests, the sort, Ok(all_events).
EventsFetch(p) ==
    /\ pc[p] = "ev_fetch"
    /\ \E ev \in FetchedEvents : EventsReturn(p, Ok(ev))
    /\ UNCHANGED <<now, credsOk, tokenFile, cacheFile, cache, lock, taskRes,
                   cmd, ret, auxVars>>

\* get_tasks returns r to get_data, which goes on to its match (main.rs:55).
TasksReturn(p, r) ==
    /\ taskRes' = [taskRes EXCEPT ![p] = r]
    /\ pc' = [pc EXCEPT ![p] = "match"]

\* tasks.rs:42-52: get_tasks has its token and sends the task lists request.
TasksToken(p) ==
    /\ pc[p] = "tasks_token"
    /\ gpc[p] = "done"
    /\ TakeGat(p)
    /\ IF gatRes[p].tag = "Err"
         THEN TasksReturn(p, Err(gatRes[p].err))
         ELSE /\ pc' = [pc EXCEPT ![p] = "tasks_list"]
              /\ UNCHANGED taskRes
    /\ UNCHANGED <<now, credsOk, tokenFile, cacheFile, cache, lock, evRes,
                   cmd, ret, calls, auxVars>>

\* tasks.rs:46-124: the task lists arrive (or the request fails and
\* get_tasks fails with it), the allowed lists are read, Ok(all_tasks).
TasksFetch(p) ==
    /\ pc[p] = "tasks_list"
    /\ \/ \E f \in RequestFailures : TasksReturn(p, Err(TasksErr(f)))
       \/ \E ts \in FetchedTasks : TasksReturn(p, Ok(ts))
    /\ UNCHANGED <<now, credsOk, tokenFile, cacheFile, cache, lock, evRes,
                   cmd, ret, gatVars, calls, auxVars>>

\* main.rs:57: let data = CachedData { events, tasks };
NewSnapshot(events, tasks) == CachedData(events, tasks)

\* get_data's local `data`, once both results are Ok.
data(p) == NewSnapshot(evRes[p].val, taskRes[p].val)

\* A command returns v: its future is ready with v, its locals still live.
Return(p, v) ==
    /\ ret' = [ret EXCEPT ![p] = v]
    /\ pc' = [pc EXCEPT ![p] = "return"]

\* main.rs:56-60 with save_cache (42-47), fs::write's File::create; its
\* error is dropped (`let _ =`).
SaveCacheOpen(p) ==
    /\ pc[p] = "match"
    /\ evRes[p].tag = "Ok" /\ taskRes[p].tag = "Ok"
    /\ \/ /\ pc' = [pc EXCEPT ![p] = "store"]
          /\ UNCHANGED cacheFile
       \/ /\ cacheFile' = FileOpened(cacheFile)
          /\ pc' = [pc EXCEPT ![p] = "cache_write"]
    /\ UNCHANGED <<now, credsOk, tokenFile, cache, lock, evRes, taskRes, cmd,
                   ret, gatVars, calls, auxVars>>

\* save_cache (main.rs:42-47), fs::write's write_all; its error is dropped.
SaveCacheWrite(p) ==
    /\ pc[p] = "cache_write"
    /\ \/ UNCHANGED cacheFile
       \/ cacheFile' = FileWritten(data(p))
    /\ pc' = [pc EXCEPT ![p] = "store"]
    /\ UNCHANGED <<now, credsOk, tokenFile, cache, lock, evRes, taskRes, cmd,
                   ret, gatVars, calls, auxVars>>

\* state.cache.lock(): the caller goes on to position l once the mutex is
\* free, holding its guard.
Lock(p, l) ==
    /\ lock = "free"
    /\ lock' = p
    /\ pc' = [pc EXCEPT ![p] = l]

\* Unlock with the guard kept alive (bound to a local that outlives the
\* statement).
UnlockKept(p) == UNCHANGED lock

\* The guard is dropped.
Unlock(p) == lock' = "free"

\* main.rs:61: state.cache.lock()
StoreLock(p) ==
    /\ pc[p] = "store"
    /\ Lock(p, "store_locked")
    /\ UNCHANGED <<now, credsOk, tokenFile, cacheFile, cache, evRes, taskRes,
                   cmd, ret, calls, gatVars, auxVars>>

\* main.rs:61-63: *guard = Some(data.clone()); the guard is dropped at the
\* end of the statement; Ok(data)
StoreCache(p) ==
    /\ pc[p] = "store_locked"
    /\ cache' = Some(data(p))
    /\ Unlock(p)
    /\ Return(p, Ok(data(p)))
    /\ UNCHANGED <<now, credsOk, tokenFile, cacheFile, evRes, taskRes, cmd,
                   gatVars, calls, auxVars>>

\* MatchedError with the two patterns in the other order.
MatchedErrorTasksFirst(events_result, tasks_result) ==
    IF tasks_result.tag = "Err" THEN tasks_result.err ELSE events_result.err

\* main.rs:65: (Err(e), _) | (_, Err(e)): the events error when there is one.
MatchedError(events_result, tasks_result) ==
    IF events_result.tag = "Err" THEN events_result.err ELSE tasks_result.err

\* Fallback without the cache: the error goes to the caller.
FallbackSurfacesError(cached, e) == Err(e)

\* main.rs:67-71: the cached snapshot if there is one, else the error.
Fallback(cached, e) == IF cached # None THEN Ok(cached.val) ELSE Err(e)

\* GetDataErr keeping what the fetcher that succeeded brought: the cached
\* snapshot is updated with it.
GetDataErrMerges(p) ==
    /\ pc[p] = "fallback_locked"
    /\ Unlock(p)
    /\ IF cache = None
         THEN /\ Return(p, Err(MatchedError(evRes[p], taskRes[p])))
              /\ UNCHANGED cache
         ELSE LET merged ==
                    CachedData(IF evRes[p].tag = "Ok" THEN evRes[p].val
                                                      ELSE cache.val.events,
                               IF taskRes[p].tag = "Ok" THEN taskRes[p].val
                                                        ELSE cache.val.tasks)
              IN  /\ cache' = Some(merged)
                  /\ Return(p, Ok(merged))
    /\ UNCHANGED <<now, credsOk, tokenFile, cacheFile, evRes, taskRes, cmd,
                   gatVars, calls, auxVars>>

\* GetDataErr dropping the in-memory snapshot when a fetcher failed.
GetDataErrClears(p) ==
    /\ pc[p] = "fallback_locked"
    /\ Unlock(p)
    /\ cache' = None
    /\ Return(p, Err(MatchedError(evRes[p], taskRes[p])))
    /\ UNCHANGED <<now, credsOk, tokenFile, cacheFile, evRes, taskRes, cmd,
                   gatVars, calls, auxVars>>

\* main.rs:65-67: a fetcher failed; state.cache.lock()
FallbackLock(p) ==
    /\ pc[p] = "match"
    /\ evRes[p].tag = "Err" \/ taskRes[p].tag = "Err"
    /\ Lock(p, "fallback_locked")
    /\ UNCHANGED <<now, credsOk, tokenFile, cacheFile, cache, evRes, taskRes,
                   cmd, ret, calls, gatVars, auxVars>>

\* main.rs:67-72: the clone of the guarded value decides the result; the
\* guard is dropped on the way out.
GetDataErr(p) ==
    /\ pc[p] = "fallback_locked"
    /\ Unlock(p)
    /\ Return(p, Fallback(cache, MatchedError(evRes[p], taskRes[p])))
    /\ UNCHANGED <<now, credsOk, tokenFile, cacheFile, cache, evRes, taskRes,
                   cmd, gatVars, calls, auxVars>>

\* One step of get_data.
get_data(p) ==
    \/ GetDataCall(p)
    \/ EventsToken(p)
    \/ CalendarsToken(p)
    \/ CalendarList(p)
    \/ EventsFetch(p)
    \/ TasksToken(p)
    \/ TasksFetch(p)
    \/ SaveCacheOpen(p)
    \/ SaveCacheWrite(p)
    \/ StoreLock(p)
    \/ StoreCache(p)
    \/ FallbackLock(p)
    \/ GetDataErr(p)

\* --------------------------------------------------- get_cached_data
\* CachedOrEmpty reporting the missing snapshot as an error.
CachedOrError(cached) ==
    IF cached # None THEN Ok(cached.val) ELSE Err("no cached data")

\* main.rs:78-85
CachedOrEmpty(cached) == IF cached # None THEN Ok(cached.val) ELSE Ok(EmptyData)

\* main.rs:76-77: the UI invokes get_cached_data.
CachedDataCall(p) ==
    /\ pc[p] = "idle"
    /\ pc' = [pc EXCEPT ![p] = "cached_lock"]
    /\ cmd' = [cmd EXCEPT ![p] = "get_cached_data"]
    /\ UNCHANGED <<now, credsOk, tokenFile, cacheFile, cache, lock, evRes,
                   taskRes, ret, calls, gatVars, auxVars>>

\* main.rs:78: state.cache.lock()
CachedDataLock(p) ==
    /\ pc[p] = "cached_lock"
    /\ Lock(p, "cached_locked")
    /\ UNCHANGED <<now, credsOk, tokenFile, cacheFile, cache, evRes, taskRes,
                   cmd, ret, calls, gatVars, auxVars>>

\* main.rs:78-85: the clone of the guarded value, or the empty snapshot; the
\* guard is dropped on the way out.
CachedDataRead(p) ==
    /\ pc[p] = "cached_locked"
    /\ Unlock(p)
    /\ Return(p, CachedOrEmpty(cache))
    /\ UNCHANGED <<now, credsOk, tokenFile, cacheFile, cache, evRes, taskRes,
                   cmd, calls, gatVars, auxVars>>

\* One step of get_cached_data (main.rs:76-86).
get_cached_data(p) ==
    \/ CachedDataCall(p)
    \/ CachedDataLock(p)
    \/ CachedDataRead(p)

\* The UI takes the result of the command; the invocation is over and its
\* locals are dropped.
Deliver(p) ==
    /\ pc[p] = "return"
    /\ pc' = [pc EXCEPT ![p] = "idle"]
    /\ cmd' = [cmd EXCEPT ![p] = "none"]
    /\ ret' = [ret EXCEPT ![p] = Pending]
    /\ evRes' = [evRes EXCEPT ![p] = Pending]
    /\ taskRes' = [taskRes EXCEPT ![p] = Pending]
    /\ calls' = [calls EXCEPT ![p] = 0]
    /\ UNCHANGED <<now, credsOk, tokenFile, cacheFile, cache, lock, gatVars,
                   auxVars>>

\* ----------------------------------------------------- complete_task
\* main.rs:88-90 and tasks.rs:127-128
CompleteTaskCall(p) ==
    /\ pc[p] = "idle"
    /\ pc' = [pc EXCEPT ![p] = "ct_token"]
    /\ cmd' = [cmd EXCEPT ![p] = "complete_task"]
    /\ calls' = [calls EXCEPT ![p] = 1]
    /\ CallGat(p)
    /\ UNCHANGED <<now, credsOk, tokenFile, cacheFile, cache, lock, evRes,
                   taskRes, ret, auxVars>>

\* tasks.rs:128-147: the token arrives and the PATCH request is sent.
CompleteTaskToken(p) ==
    /\ pc[p] = "ct_token"
    /\ gpc[p] = "done"
    /\ TakeGat(p)
    /\ IF gatRes[p].tag = "Err"
         THEN Return(p, Err(gatRes[p].err))
         ELSE /\ pc' = [pc EXCEPT ![p] = "ct_patch"]
              /\ UNCHANGED ret
    /\ UNCHANGED <<now, credsOk, tokenFile, cacheFile, cache, lock, evRes,
                   taskRes, cmd, calls, auxVars>>

\* CompleteTaskPatch taking the completed task out of the cached snapshot.
CompleteTaskPatchUpdates(p) ==
    /\ pc[p] = "ct_patch"
    /\ \/ /\ Return(p, Err(PatchErr))
          /\ UNCHANGED cache
       \/ /\ Return(p, Ok(FALSE))
          /\ UNCHANGED cache
       \/ /\ Return(p, Ok(TRUE))
          /\ cache' = IF cache = None THEN None
                      ELSE Some(CachedData(cache.val.events, <<>>))
    /\ UNCHANGED <<now, credsOk, tokenFile, cacheFile, lock, evRes, taskRes,
                   cmd, gatVars, calls, auxVars>>

\* tasks.rs:142-150: Ok(response.status().is_success()), or the send error.
CompleteTaskPatch(p) ==
    /\ pc[p] = "ct_patch"
    /\ \/ Return(p, Err(PatchErr))
       \/ \E b \in BOOLEAN : Return(p, Ok(b))
    /\ UNCHANGED <<now, credsOk, tokenFile, cacheFile, cache, lock, evRes,
                   taskRes, cmd, gatVars, calls, auxVars>>

\* One step of complete_task.
complete_task(p) ==
    \/ CompleteTaskCall(p)
    \/ CompleteTaskToken(p)
    \/ CompleteTaskPatch(p)

\* ------------------------------------------------------- environment
\* The clock advances.
Tick ==
    /\ now < MaxNow
    /\ now' = now + 1
    /\ UNCHANGED <<credsOk, tokenFile, cacheFile, cache, lock, cmdVars,
                   gatVars, auxVars>>

\* The operator puts a credentials.json in place, or takes it away.
CredentialsChange ==
    /\ credsOk' = ~credsOk
    /\ UNCHANGED <<now, tokenFile, cacheFile, cache, lock, cmdVars, gatVars,
                   auxVars>>

\* The locals of a freshly started process.
Started ==
    /\ pc = [p \in Procs |-> "idle"]
    /\ evRes = [p \in Procs |-> Pending]
    /\ taskRes = [p \in Procs |-> Pending]
    /\ cmd = [p \in Procs |-> "none"]
    /\ ret = [p \in Procs |-> Pending]
    /\ calls = [p \in Procs |-> 0]
    /\ gpc = [p \in Procs |-> "idle"]
    /\ tok = [p \in Procs |-> None]
    /\ used = [p \in Procs |-> None]
    /\ resp = [p \in Procs |-> None]
    /\ reqs = [p \in Procs |-> {}]
    /\ gatRes = [p \in Procs |-> Pending]

\* main.rs:103-111: the process is killed at any point and started again;
\* main loads the cache file into AppState.
Restart ==
    /\ pc' = [p \in Procs |-> "idle"]
    /\ evRes' = [p \in Procs |-> Pending]
    /\ taskRes' = [p \in Procs |-> Pending]
    /\ cmd' = [p \in Procs |-> "none"]
    /\ ret' = [p \in Procs |-> Pending]
    /\ calls' = [p \in Procs |-> 0]
    /\ gpc' = [p \in Procs |-> "idle"]
    /\ tok' = [p \in Procs |-> None]
    /\ used' = [p \in Procs |-> None]
    /\ resp' = [p \in Procs |-> None]
    /\ reqs' = [p \in Procs |-> {}]
    /\ gatRes' = [p \in Procs |-> Pending]
    /\ cache' = load_cache
    /\ lock' = "free"
    /\ UNCHANGED <<now, credsOk, tokenFile, cacheFile, auxVars>>

\* The component specification of get_events is not running.
EventsIdle ==
    /\ events_pc = "idle"
    /\ calendars = <<>>
    /\ responses = <<>>
    /\ all_events = <<>>
    /\ events_ret = Pending

\* That of get_tasks is not running.
TasksIdle ==
    /\ tasks_pc = "idle"
    /\ tasklists = None
    /\ lists = <<>>
    /\ visited = <<>>
    /\ all_tasks = <<>>
    /\ tasks_ret = Pending

\* That of perform_oauth_flow is not running.
OAuthIdle ==
    /\ flow_pc = "idle"
    /\ rng = 0
    /\ code_verifier = None
    /\ code_challenge = None
    /\ redirect_uri = None
    /\ auth_url = None
    /\ exchange = None
    /\ flow_token = None
    /\ spent = {}
    /\ flow_ret = Pending

\* No component specification is running.
AuxIdle == EventsIdle /\ TasksIdle /\ OAuthIdle

\* main.rs:103-111 on the first start.
Init ==
    /\ AuxIdle
    /\ now = 0
    /\ credsOk \in BOOLEAN
    /\ tokenFile \in {Absent, Partial} \cup {File(t) : t \in InitTokens}
    /\ cacheFile \in InitCacheFiles
    /\ cache = load_cache
    /\ lock = "free"
    /\ Started

\* Spec issues the commands one at a time, as a UI that awaits each invoke
\* does: one invocation slot is in use.  The kill of the process, the clock
\* and the operator fall between any two steps of a command.
Workers == {"p1"}

Next ==
    \/ \E p \in Workers : get_access_token(p)
    \/ \E p \in Workers : get_data(p)
    \/ \E p \in Workers : complete_task(p)
    \/ \E p \in Workers : get_cached_data(p)
    \/ \E p \in Workers : Deliver(p)
    \/ Tick
    \/ CredentialsChange
    \/ Restart

Spec == Init /\ [][Next]_vars

\* ----------------------------------------- get_events, calendar by calendar
\* The process of a component specification: started, no command invoked.
CoreIdle ==
    /\ now = 0
    /\ credsOk = TRUE
    /\ tokenFile = Absent
    /\ cacheFile = Absent
    /\ cache = None
    /\ lock = "free"
    /\ Started

\* chrono::Local: hours the local time zone is ahead of UTC.
LocalOffset == 1

\* Event.time of an all-day event is "All day" (calendar.rs:218, 252), a
\* string that compares greater than every "%H:%M".  Times are the hour of
\* the day, 0..23, and AllDay stands for "All day".
AllDay == 24

\* Utc::now().format("%Y-%m-%d"): dates are day numbers, today is 0.
Today(t) == t \div 86400

\* EventDateTime { date_time, date }; a date_time is an RFC 3339 instant
\* (hours since 00:00 UTC of today) or a string that does not parse.
EventDateTime(dt, d) == [date_time |-> dt, date |-> d]

Instant(h) == [rfc3339 |-> TRUE, hour |-> h]

Unparseable == [rfc3339 |-> FALSE]

\* EventEntry { id, start, .. }
EventEntry(id, start) == [id |-> id, start |-> start]

\* Entries the API may list: an all-day event on day 2, timed events at
\* 09:00 local time of day 2 and at 23:00 local time of day 1 (which is
\* day 1, 22:00 UTC), an event without start, one whose start does not parse.
EventEntries ==
    { EventEntry(Some("allday"), Some(EventDateTime(None, Some(2)))),
      EventEntry(Some("morning"),
                 Some(EventDateTime(Some(Instant(2 * 24 + 9 - LocalOffset)),
                                    None))),
      EventEntry(Some("late"),
                 Some(EventDateTime(Some(Instant(1 * 24 + 23 - LocalOffset)),
                                    None))),
      EventEntry(Some("nostart"), None),
      EventEntry(None, Some(EventDateTime(Some(Unparseable), None))) }

\* The calendar lists get_calendars may return: the account has no calendar,
\* one calendar, two calendars.
CalendarLists == {<<>>, <<1>>, <<1, 2>>}

\* How many events a calendar lists, at most.
MaxItems == 2

\* EventsListResponse.items: Option<Vec<EventEntry>>
SeqsUpTo(S, n) == UNION {[1..k -> S] : k \in 0..n}

EventsListResponses ==
    {None} \cup {Some(items) : items \in SeqsUpTo(EventEntries, MaxItems)}

\* calendar.rs:210-253 parse_event_time: (date, time, is_all_day)
parse_event_time(event, t) ==
    LET start == event.start
        fallback == [date |-> Today(t), time |-> AllDay, is_all_day |-> TRUE]
    IN  IF start = None THEN fallback
        ELSE IF start.val.date # None
          THEN [date |-> start.val.date.val, time |-> AllDay,
                is_all_day |-> TRUE]
        ELSE IF start.val.date_time # None /\ start.val.date_time.val.rfc3339
          THEN LET local == start.val.date_time.val.hour + LocalOffset
               IN  [date |-> local \div 24, time |-> local % 24,
                    is_all_day |-> FALSE]
        ELSE fallback

\* calendar.rs:172-186: the Event pushed for an entry of calendar c.
Event(item, c, t) ==
    LET parsed == parse_event_time(item, t)
    IN  [id |-> IF item.id # None THEN item.id.val ELSE "",
         date |-> parsed.date,
         time |-> parsed.time,
         is_all_day |-> parsed.is_all_day,
         calendar |-> c]

\* Compare without the two all-day tests.
CompareDateTime(a, b) ==
    IF a.date < b.date THEN "Less"
    ELSE IF a.date > b.date THEN "Greater"
    ELSE IF a.time < b.time THEN "Less"
    ELSE IF a.time > b.time THEN "Greater"
    ELSE "Equal"

\* calendar.rs:192-205: the closure of sort_by.
Compare(a, b) ==
    IF a.date < b.date THEN "Less"
    ELSE IF a.date > b.date THEN "Greater"
    ELSE IF a.is_all_day /\ ~b.is_all_day THEN "Less"
    ELSE IF ~a.is_all_day /\ b.is_all_day THEN "Greater"
    ELSE IF a.time < b.time THEN "Less"
    ELSE IF a.time > b.time THEN "Greater"
    ELSE "Equal"

\* slice::sort_by is a stable sort: x goes in front of the first element it
\* is Less than.
InsertSorted(sorted, x) ==
    LET before == {i \in 1..Len(sorted) : Compare(x, sorted[i]) = "Less"}
        k == IF before = {} THEN Len(sorted) + 1
             ELSE CHOOSE i \in before : \A j \in before : i <= j
    IN  SubSeq(sorted, 1, k - 1) \o <<x>> \o SubSeq(sorted, k, Len(sorted))

RECURSIVE sort_by(_)
sort_by(events) ==
    IF events = <<>> THEN <<>>
    ELSE InsertSorted(sort_by(SubSeq(events, 1, Len(events) - 1)),
                      events[Len(events)])

\* The component specifications leave the commands' variables alone.
EventsFrame == UNCHANGED <<coreVars, tasksVars, oauthVars>>

\* EventsRequestFails with the failure propagated by `?`.
EventsRequestAborts ==
    /\ events_pc = "loop"
    /\ calendars # <<>>
    /\ \E f \in RequestFailures :
         /\ responses' = Append(responses, Err(f))
         /\ events_ret' = Err(CalendarErr(f))
    /\ events_pc' = "return"
    /\ calendars' = Tail(calendars)
    /\ UNCHANGED all_events
    /\ EventsFrame

\* calendar.rs:135-168: the events request of the next calendar fails (send
\* error, status, body): the failure is printed and the loop continues.
EventsRequestFails ==
    /\ events_pc = "loop"
    /\ calendars # <<>>
    /\ \E f \in RequestFailures : responses' = Append(responses, Err(f))
    /\ calendars' = Tail(calendars)
    /\ UNCHANGED <<events_pc, all_events, events_ret>>
    /\ EventsFrame

\* calendar.rs:135-188: the events request of the next calendar succeeds and
\* an Event is pushed for each of its items.
EventsResponse ==
    /\ events_pc = "loop"
    /\ calendars # <<>>
    /\ \E body \in EventsListResponses :
         /\ responses' = Append(responses, Ok(body))
         /\ all_events' =
              IF body = None THEN all_events
              ELSE all_events \o
                   [i \in 1..Len(body.val) |->
                      Event(body.val[i], Head(calendars), now)]
    /\ calendars' = Tail(calendars)
    /\ UNCHANGED <<events_pc, events_ret>>
    /\ EventsFrame

\* calendar.rs:191-207: the loop is over; sort_by, Ok(all_events).
EventsSorted ==
    /\ events_pc = "loop"
    /\ calendars = <<>>
    /\ all_events' = sort_by(all_events)
    /\ events_ret' = Ok(all_events')
    /\ events_pc' = "return"
    /\ UNCHANGED <<calendars, responses>>
    /\ EventsFrame

\* calendar.rs:123-133: get_events has its token and the calendar list
\* and enters the loop.
InitEvents ==
    /\ CoreIdle
    /\ events_pc = "loop"
    /\ calendars \in CalendarLists
    /\ responses = <<>>
    /\ all_events = <<>>
    /\ events_ret = Pending
    /\ TasksIdle
    /\ OAuthIdle

NextEvents ==
    \/ EventsRequestFails
    \/ EventsResponse
    \/ EventsSorted

SpecEvents == InitEvents /\ [][NextEvents]_vars

\* ------------------------------------------------ get_tasks, list by list
\* tasks.rs:8
ALLOWED_LISTS == {"I dag", "Min huskeliste"}

\* TaskListEntry { id, title }
TaskListEntry(id, title) == [id |-> id, title |-> title]

\* TaskListsResponse.items the API may return: none, no list, lists in and
\* out of the allow-list, a list without title.
TaskListsResponses ==
    { None,
      Some(<<>>),
      Some(<<TaskListEntry("l1", Some("I dag"))>>),
      Some(<<TaskListEntry("l1", Some("Arbejde")),
             TaskListEntry("l2", Some("I dag"))>>),
      Some(<<TaskListEntry("l1", Some("Min huskeliste")),
             TaskListEntry("l2", Some("I dag"))>>),
      Some(<<TaskListEntry("l1", None),
             TaskListEntry("l2", Some("Arbejde"))>>) }

\* TaskEntry { id, title, status }
TaskEntry(id, title, status) == [id |-> id, title |-> title, status |-> status]

\* Entries a list may hold: an open task, a completed one, one with an
\* empty title, one without title, one without status.
TaskEntries ==
    { TaskEntry(Some("open"), Some("Ring mor"), Some("needsAction")),
      TaskEntry(Some("done"), Some("Vask op"), Some("completed")),
      TaskEntry(Some("blank"), Some(""), Some("needsAction")),
      TaskEntry(Some("untitled"), None, Some("needsAction")),
      TaskEntry(None, Some("Handle ind"), None) }

\* How many tasks a list holds, at most.
MaxTasks == 2

\* TasksResponse.items: Option<Vec<TaskEntry>>
TasksResponses ==
    {None} \cup {Some(items) : items \in SeqsUpTo(TaskEntries, MaxTasks)}

\* A list has not been requested.
Skipped == [tag |-> "Skipped"]

\* Allowed without the allow-list.
AllowedAny(list) == TRUE

\* tasks.rs:69-70: list.title.as_deref().unwrap_or("") is in ALLOWED_LISTS.
Allowed(list) ==
    (IF list.title # None THEN list.title.val ELSE "") \in ALLOWED_LISTS

\* tasks.rs:110-115: the Task pushed for an entry of a list.
Task(item, list) ==
    [id |-> IF item.id # None THEN item.id.val ELSE "",
     title |-> IF item.title # None THEN item.title.val ELSE "",
     completed |-> item.status = Some("completed"),
     tasklist_id |-> list.id]

\* tasks.rs:103-117: the tasks of a response, those with an empty title
\* left out.
RECURSIVE Titled(_, _)
Titled(items, list) ==
    IF items = <<>> THEN <<>>
    ELSE LET task == Task(Head(items), list)
         IN  (IF task.title = "" THEN <<>> ELSE <<task>>)
               \o Titled(Tail(items), list)

\* tasks.rs:122: all_tasks.retain(|t| !t.completed)
RECURSIVE retain(_)
retain(tasks) ==
    IF tasks = <<>> THEN <<>>
    ELSE (IF Head(tasks).completed THEN <<>> ELSE <<Head(tasks)>>)
           \o retain(Tail(tasks))

TasksFrame == UNCHANGED <<coreVars, eventsVars, oauthVars>>

\* tasks.rs:67-72: the next list is not in the allow-list: continue.
TasksListSkipped ==
    /\ tasks_pc = "loop"
    /\ lists # <<>>
    /\ ~Allowed(Head(lists))
    /\ visited' = Append(visited, Skipped)
    /\ lists' = Tail(lists)
    /\ UNCHANGED <<tasks_pc, tasklists, all_tasks, tasks_ret>>
    /\ TasksFrame

\* tasks.rs:74-101: the tasks request of the next list, an allowed one, fails
\* (send error, status, body): continue.
TasksRequestFails ==
    /\ tasks_pc = "loop"
    /\ lists # <<>>
    /\ Allowed(Head(lists))
    /\ \E f \in RequestFailures : visited' = Append(visited, Err(f))
    /\ lists' = Tail(lists)
    /\ UNCHANGED <<tasks_pc, tasklists, all_tasks, tasks_ret>>
    /\ TasksFrame

\* tasks.rs:74-117: the tasks request of the next list, an allowed one,
\* succeeds and a Task is pushed for each item with a title.
TasksResponse ==
    /\ tasks_pc = "loop"
    /\ lists # <<>>
    /\ Allowed(Head(lists))
    /\ \E tasks_response \in TasksResponses :
         /\ visited' = Append(visited, Ok(tasks_response))
         /\ all_tasks' =
              IF tasks_response = None THEN all_tasks
              ELSE all_tasks \o Titled(tasks_response.val, Head(lists))
    /\ lists' = Tail(lists)
    /\ UNCHANGED <<tasks_pc, tasklists, tasks_ret>>
    /\ TasksFrame

\* tasks.rs:121-124: the loop is over; retain, Ok(all_tasks).
TasksRetained ==
    /\ tasks_pc = "loop"
    /\ lists = <<>>
    /\ all_tasks' = retain(all_tasks)
    /\ tasks_ret' = Ok(all_tasks')
    /\ tasks_pc' = "return"
    /\ UNCHANGED <<tasklists, lists, visited>>
    /\ TasksFrame

\* tasks.rs:59-66: get_tasks has its token and the task lists and enters
\* the loop (over no list when items is absent).
InitTasks ==
    /\ CoreIdle
    /\ EventsIdle
    /\ OAuthIdle
    /\ tasks_pc = "loop"
    /\ tasklists \in TaskListsResponses
    /\ lists = IF tasklists = None THEN <<>> ELSE tasklists.val
    /\ visited = <<>>
    /\ all_tasks = <<>>
    /\ tasks_ret = Pending

NextTasks ==
    \/ TasksListSkipped
    \/ TasksRequestFails
    \/ TasksResponse
    \/ TasksRetained

SpecTasks == InitTasks /\ [][NextTasks]_vars

\* ------------------------------------ perform_oauth_flow, value by value
\* How many interactive authorizations the process goes through, at most.
MaxAttempts == 2

\* rand::thread_rng(): the n-th 32 random bytes it produces.  A
\* cryptographic generator does not produce the same 32 bytes twice.
RandomBytes(n) == <<"bytes", n>>

\* URL_SAFE_NO_PAD.encode, Sha256 and urlencoding::encode are one-to-one on
\* the values of the model (SHA-256 as collision-free): each is the
\* constructor of a term, told apart from its argument.
Base64Url(x) == <<"base64url", x>>

Sha256(x) == <<"sha256", x>>

UrlEncode(x) == <<"urlencoded", x>>

\* What the provider reads from a query value.
UrlDecode(x) == x[2]

\* auth.rs:78-82
generate_code_verifier(n) == Base64Url(RandomBytes(n))

\* auth.rs:84-89
generate_code_challenge(verifier) == Base64Url(Sha256(verifier))

\* The ports the OS may assign to 127.0.0.1:0, and the codes the provider
\* may put in the redirect.
Ports == {49152, 49153}

Codes == {"code1", "code2"}

\* auth.rs:173
RedirectUri(port) == <<"http://127.0.0.1:", port>>

\* auth.rs:176-183: the query of the authorization URL.
AuthUrl(challenge, redirect) ==
    [redirect_uri |-> UrlEncode(redirect),
     response_type |-> "code",
     code_challenge |-> UrlEncode(challenge),
     code_challenge_method |-> "S256"]

\* AuthParams sending a verifier that is not the attempt's.
AuthParamsStale(code, verifier, redirect) ==
    [code |-> code,
     code_verifier |-> generate_code_verifier(0),
     redirect_uri |-> redirect,
     grant_type |-> "authorization_code"]

\* auth.rs:223-230: the form of the authorization-code request.
AuthParams(code, verifier, redirect) ==
    [code |-> code,
     code_verifier |-> verifier,
     redirect_uri |-> redirect,
     grant_type |-> "authorization_code"]

\* The component leaves the commands' variables alone, but for the token
\* file, and the other components' too.
OAuthFrame ==
    UNCHANGED <<now, credsOk, cacheFile, cache, lock, cmdVars, gatVars,
                eventsVars, tasksVars>>

\* perform_oauth_flow or save_token returns v: the locals are dropped.
FlowReturn(v) ==
    /\ flow_ret' = v
    /\ flow_pc' = "return"
    /\ spent' = spent \cup {code_verifier.val}
    /\ code_verifier' = None
    /\ code_challenge' = None
    /\ redirect_uri' = None
    /\ flow_token' = None

\* auth.rs:165-166: the PKCE pair.
PkceGenerate ==
    /\ flow_pc = "start"
    /\ rng < MaxAttempts
    /\ rng' = rng + 1
    /\ code_verifier' = Some(generate_code_verifier(rng'))
    /\ code_challenge' = Some(generate_code_challenge(code_verifier'.val))
    /\ flow_pc' = "bind"
    /\ UNCHANGED <<redirect_uri, auth_url, exchange, flow_token, spent,
                   flow_ret, tokenFile>>
    /\ OAuthFrame

\* auth.rs:169-188: the listener, the redirect URI, the authorization URL,
\* the browser (opened or not, the URL is printed when it is not).
ListenerBind ==
    /\ flow_pc = "bind"
    /\ \/ /\ FlowReturn(Err(BindErr))
          /\ UNCHANGED auth_url
       \/ \E port \in Ports :
            /\ redirect_uri' = Some(RedirectUri(port))
            /\ auth_url' = Some(AuthUrl(code_challenge.val, redirect_uri'.val))
            /\ flow_pc' = "recv"
            /\ UNCHANGED <<code_verifier, code_challenge, flow_token, spent,
                           flow_ret>>
    /\ UNCHANGED <<rng, exchange, tokenFile>>
    /\ OAuthFrame

\* auth.rs:191-237: the callback request is read, the code taken from it and
\* the authorization-code request sent.
CallbackRecv ==
    /\ flow_pc = "recv"
    /\ \/ /\ \E e \in {RecvErr, UrlErr, NoCodeErr} : FlowReturn(Err(e))
          /\ UNCHANGED exchange
       \/ \E code \in Codes :
            /\ exchange' = Some(AuthParams(code, code_verifier.val,
                                           redirect_uri.val))
            /\ flow_pc' = "exchange"
            /\ UNCHANGED <<code_verifier, code_challenge, redirect_uri,
                           flow_token, spent, flow_ret>>
    /\ UNCHANGED <<rng, auth_url, tokenFile>>
    /\ OAuthFrame

\* auth.rs:232-257 and 121: the token endpoint answers; Ok(Token).
CodeExchange ==
    /\ flow_pc = "exchange"
    /\ \/ \E f \in RequestFailures : FlowReturn(Err(ExchangeErr(f)))
       \/ \E token_response \in TokenResponses :
            /\ flow_token' = Some(ExchangedToken(token_response, now))
            /\ flow_pc' = "save_open"
            /\ UNCHANGED <<code_verifier, code_challenge, redirect_uri,
                           spent, flow_ret>>
    /\ UNCHANGED <<rng, auth_url, exchange, tokenFile>>
    /\ OAuthFrame

\* auth.rs:122 with save_token (70-76), fs::write's File::create.
FlowSaveOpen ==
    /\ flow_pc = "save_open"
    /\ \/ /\ FlowReturn(Err(WriteErr))
          /\ UNCHANGED tokenFile
       \/ /\ tokenFile' = FileOpened(tokenFile)
          /\ flow_pc' = "save_write"
          /\ UNCHANGED <<code_verifier, code_challenge, redirect_uri,
                         flow_token, spent, flow_ret>>
    /\ UNCHANGED <<rng, auth_url, exchange>>
    /\ OAuthFrame

\* auth.rs:122-123 with save_token (70-76), fs::write's write_all.
FlowSaveWrite ==
    /\ flow_pc = "save_write"
    /\ \/ /\ FlowReturn(Err(WriteErr))
          /\ UNCHANGED tokenFile
       \/ /\ tokenFile' = FileWritten(flow_token.val)
          /\ FlowReturn(Ok(flow_token.val.access_token))
    /\ UNCHANGED <<rng, auth_url, exchange>>
    /\ OAuthFrame

\* auth.rs:119-121: a later get_access_token call comes to the interactive
\* authorization again.
FlowAgain ==
    /\ flow_pc = "return"
    /\ flow_pc' = "start"
    /\ flow_ret' = Pending
    /\ auth_url' = None
    /\ exchange' = None
    /\ UNCHANGED <<rng, code_verifier, code_challenge, redirect_uri,
                   flow_token, spent, tokenFile>>
    /\ OAuthFrame

\* auth.rs:119-121: get_access_token calls perform_oauth_flow.
InitOAuth ==
    /\ CoreIdle
    /\ EventsIdle
    /\ TasksIdle
    /\ flow_pc = "start"
    /\ rng = 0
    /\ code_verifier = None
    /\ code_challenge = None
    /\ redirect_uri = None
    /\ auth_url = None
    /\ exchange = None
    /\ flow_token = None
    /\ spent = {}
    /\ flow_ret = Pending

NextOAuth ==
    \/ PkceGenerate
    \/ ListenerBind
    \/ CallbackRecv
    \/ CodeExchange
    \/ FlowSaveOpen
    \/ FlowSaveWrite
    \/ FlowAgain

SpecOAuth == InitOAuth /\ [][NextOAuth]_vars

\* ------------------------------------------------- concurrent commands
\* Tauri runs async commands on a multi-threaded runtime: invocations
\* overlap and their steps interleave.  In SpecConc one invocation slot
\* issues get_data and get_cached_data calls while the other issues
\* get_cached_data calls.  The process starts with readable credentials and
\* a token that has expired and can be refreshed, so that the first calls go
\* to the token endpoint.
InitConc ==
    /\ AuxIdle
    /\ now = 0
    /\ credsOk = TRUE
    /\ tokenFile = File(Token("a0", Some("r0"), Some(Buffer)))
    /\ cacheFile \in {Absent, File(CachedData(<<"e1">>, <<"t1">>))}
    /\ cache = load_cache
    /\ lock = "free"
    /\ Started

NextConc ==
    \/ \E p \in Workers : get_access_token(p)
    \/ \E p \in Workers : get_data(p)
    \/ \E p \in Procs : get_cached_data(p)
    \/ \E p \in Procs : Deliver(p)

SpecConc == InitConc /\ [][NextConc]_vars

\* --------------------------------------------------- concurrent get_data
\* Tauri runs async commands on a multi-threaded runtime: two get_data
\* invocations interleave step by step.  The process starts without a cache,
\* with readable credentials and a token that the 60-second rule accepts,
\* so that every get_access_token call returns it.
InitRace ==
    /\ AuxIdle
    /\ now = 0
    /\ credsOk = TRUE
    /\ tokenFile = File(Token("a0", None, Some(Buffer + 1)))
    /\ cacheFile = Absent
    /\ cache = load_cache
    /\ lock = "free"
    /\ Started

NextRace ==
    \/ \E p \in Procs : GatLoadCredentials(p)
    \/ \E p \in Procs : GatLoadToken(p)
    \/ \E p \in Procs : get_data(p)
    \/ \E p \in Procs : Deliver(p)

SpecRace == InitRace /\ [][NextRace]_vars

\* ------------------------------------------------ the wait for the redirect
\* The process starts with readable credentials and no token, so that the
\* first get_access_token call goes to the interactive authorization.
InitWait ==
    /\ AuxIdle
    /\ now = 0
    /\ credsOk = TRUE
    /\ tokenFile = Absent
    /\ cacheFile \in {Absent, File(CachedData(<<"e1">>, <<"t1">>))}
    /\ cache = load_cache
    /\ lock = "free"
    /\ Started

NextWait ==
    \/ \E p \in Workers : get_access_token(p)
    \/ \E p \in Workers : get_data(p)
    \/ \E p \in Workers : complete_task(p)
    \/ \E p \in Workers : Deliver(p)

\* The browser is redirected to the listener and the token endpoint
\* answers (the premises under which the call is said to return); the
\* runtime polls a future that can make a step (auth.rs:70-76, 121-123).
FairWait ==
    \A p \in Workers :
        /\ WF_vars(OAuthCallback(p))
        /\ WF_vars(ExchangeResponse(p))
        /\ WF_vars(SaveTokenOpen(p))
        /\ WF_vars(SaveTokenWrite(p))

SpecWait == InitWait /\ [][NextWait]_vars /\ FairWait

\* ------------------------------------------------------------ claims
\* What a get_access_token call has sent over the network or shown the user.
Outgoing == {"refresh", "oauth", "browser", "exchange"}

\* C1: with loadable credentials and a persisted token that has an
\* expires_at, get_access_token returns the persisted access_token at once,
\* sending nothing, when now + 60 < expires_at; when expires_at <= now + 60
\* it returns nothing at that point and goes on to the refresh grant (if the
\* token has a refresh token) or to the interactive authorization.
C1_SixtySecondBuffer ==
    [][\A p \in Procs :
         (/\ GatLoadToken(p)
          /\ load_token # None
          /\ load_token.val.expires_at # None)
         => IF now + 60 < load_token.val.expires_at.val
              THEN /\ gpc'[p] = "done"
                   /\ gatRes'[p] = Ok(load_token.val.access_token)
                   /\ reqs'[p] \cap Outgoing = {}
              ELSE /\ gatRes'[p] = Pending
                   /\ \/ gpc'[p] = "refresh_wait" /\ "refresh" \in reqs'[p]
                      \/ gpc'[p] = "oauth_start"]_vars

\* C1's case: a token that expires in exactly 60 seconds has been loaded and
\* the refresh grant has been sent for it.
C1_Witness ==
    \E p \in Procs :
        /\ gpc[p] = "refresh_wait"
        /\ tok[p].expires_at = Some(now + 60)
        /\ "refresh" \in reqs[p]

\* C2: when save_token completes after a successful refresh grant, the
\* persisted token has the response's refresh_token if the response carries
\* one and otherwise the refresh token the grant was made with; either way it
\* has a refresh token.
C2_RefreshTokenRetained ==
    [][\A p \in Procs :
         (SaveTokenWrite(p) /\ used[p] # None /\ gatRes'[p].tag = "Ok")
         => /\ tokenFile'.tag = "File"
            /\ tokenFile'.val.access_token = resp[p].val.access_token
            /\ tokenFile'.val.refresh_token =
                 IF resp[p].val.refresh_token = None
                   THEN used[p]
                   ELSE resp[p].val.refresh_token
            /\ tokenFile'.val.refresh_token # None]_vars

\* C2's case: the token file holds a token issued by a refresh ("a1") that
\* still has the refresh token the program started with ("r0").
C2_Witness ==
    /\ tokenFile.tag = "File"
    /\ tokenFile.val.access_token = "a1"
    /\ tokenFile.val.refresh_token = Some("r0")

\* The errors perform_oauth_flow returns.
OAuthErrors ==
    {BindErr, RecvErr, UrlErr, NoCodeErr} \cup {ExchangeErr(f) : f \in RequestFailures}

\* C3: a failed refresh grant returns nothing to the caller and leads to the
\* interactive authorization; so does a missing token and an expired token
\* without refresh token.  Once in the interactive authorization, the call
\* ends with that authorization's outcome: its error, or the access token it
\* obtained (Err from save_token when the new token cannot be persisted,
\* auth.rs:122).
C3_RefreshFailureFallsThrough ==
    [][\A p \in Procs :
         /\ (RefreshResponse(p) /\ gpc'[p] # "save_open")
            => gpc'[p] = "oauth_start" /\ gatRes'[p] = Pending
         /\ (/\ GatLoadToken(p)
             /\ \/ load_token = None
                \/ /\ load_token.val.refresh_token = None
                   /\ \/ load_token.val.expires_at = None
                      \/ load_token.val.expires_at.val <= now + 60)
            => gpc'[p] = "oauth_start" /\ gatRes'[p] = Pending
         /\ (gpc[p] \in {"oauth_start", "oauth_recv", "oauth_exchange"}
               /\ gpc'[p] = "done")
            => gatRes'[p].tag = "Err" /\ gatRes'[p].err \in OAuthErrors
         /\ (gpc[p] \in {"save_open", "save_write"} /\ "oauth" \in reqs[p]
               /\ gpc'[p] = "done")
            => \/ gatRes'[p] = Ok(resp[p].val.access_token)
               \/ gatRes'[p] = Err(WriteErr)]_vars

\* C3's case: a call that sent the refresh grant, went through the
\* interactive authorization and returned its access token.
C3_Witness ==
    \E p \in Procs :
        /\ gpc[p] = "done"
        /\ {"refresh", "oauth", "exchange", "save_token"} \subseteq reqs[p]
        /\ gatRes[p] = Ok("a1")

\* C4: a get_data in which a fetcher failed changes neither the in-memory
\* cache nor the cache file in any of its steps, and with a snapshot in
\* memory it returns Ok with exactly that snapshot, whatever the other
\* fetcher brought.
C4_FallbackKeepsSnapshot ==
    [][\A p \in Procs :
         /\ (GetDataErr(p) /\ cache # None)
            => ret'[p] = Ok(cache.val)
         /\ (/\ cmd[p] = "get_data" /\ cmd'[p] = "get_data"
             /\ \/ pc[p] \notin {"match", "cache_write", "store", "store_locked"}
                \/ evRes[p].tag = "Err"
                \/ taskRes[p].tag = "Err")
            => cache' = cache /\ cacheFile' = cacheFile]_vars

\* C4's case: the events fetcher brought e2, the tasks fetcher failed, and
\* get_data returned the snapshot with e1 that memory and disk still hold.
C4_Witness ==
    \E p \in Procs :
        /\ pc[p] = "return" /\ cmd[p] = "get_data"
        /\ evRes[p] = Ok(<<"e2">>)
        /\ taskRes[p].tag = "Err"
        /\ ret[p] = Ok(CachedData(<<"e1">>, <<"t1">>))
        /\ cache = Some(CachedData(<<"e1">>, <<"t1">>))
        /\ cacheFile = File(CachedData(<<"e1">>, <<"t1">>))

\* C5: when a get_data whose fetchers both succeeded returns, its result is
\* exactly the fetched events and tasks and the in-memory cache and the cache
\* file both hold that snapshot.
C5_SuccessReplacesBoth ==
    \A p \in Procs :
        (/\ pc[p] = "return" /\ cmd[p] = "get_data"
         /\ evRes[p].tag = "Ok" /\ taskRes[p].tag = "Ok")
        => /\ ret[p] = Ok(CachedData(evRes[p].val, taskRes[p].val))
           /\ cache = Some(CachedData(evRes[p].val, taskRes[p].val))
           /\ cacheFile = File(CachedData(evRes[p].val, taskRes[p].val))

\* C6: get_data returns an error if and only if a fetcher failed and no
\* snapshot is in memory; the error is the events fetcher's when that one
\* failed, else the tasks fetcher's.
C6_ErrorIffNoCache ==
    \A p \in Procs :
        (pc[p] = "return" /\ cmd[p] = "get_data")
        => /\ ret[p].tag = "Err"
                <=> /\ evRes[p].tag = "Err" \/ taskRes[p].tag = "Err"
                    /\ cache = None
           /\ ret[p].tag = "Err"
                => ret[p].err = IF evRes[p].tag = "Err" THEN evRes[p].err
                                                        ELSE taskRes[p].err

\* C6's case: both fetchers failed, with different errors, and nothing is
\* cached: get_data returned the events fetcher's error.
C6_Witness ==
    \E p \in Procs :
        /\ pc[p] = "return" /\ cmd[p] = "get_data"
        /\ evRes[p] = Err(CalendarErr("status"))
        /\ taskRes[p] = Err(TasksErr("status"))
        /\ cache = None
        /\ ret[p] = Err(CalendarErr("status"))

\* C7: get_cached_data returns Ok, with the empty snapshot when none is in
\* memory and the in-memory snapshot otherwise, and changes neither the
\* cache nor the cache file; the in-memory snapshot changes only at a start
\* of the process (to what the cache file parses to) and at the end of a
\* get_data whose fetchers both succeeded (to the snapshot it returns).
C7_CachedDataNeverFails ==
    [][/\ \A p \in Procs :
            /\ CachedDataRead(p)
               => ret'[p] = IF cache = None THEN Ok(CachedData(<<>>, <<>>))
                                            ELSE Ok(cache.val)
            /\ get_cached_data(p)
               => cache' = cache /\ cacheFile' = cacheFile
       /\ cache' # cache
            => \/ /\ \A p \in Procs : pc'[p] = "idle" /\ cmd'[p] = "none"
                  /\ cache' = IF cacheFile.tag = "File" THEN Some(cacheFile.val)
                                                        ELSE None
               \/ \E p \in Procs :
                    /\ pc[p] = "store_locked" /\ pc'[p] = "return"
                    /\ evRes[p].tag = "Ok" /\ taskRes[p].tag = "Ok"
                    /\ ret'[p] = Ok(cache'.val)
                    /\ cache' = Some(CachedData(evRes[p].val, taskRes[p].val))
      ]_vars

\* C7's case: get_cached_data has returned the empty snapshot on an
\* instance with nothing in memory.
C7_Witness ==
    \E p \in Procs :
        /\ pc[p] = "return" /\ cmd[p] = "get_cached_data"
        /\ cache = None
        /\ ret[p] = Ok(CachedData(<<>>, <<>>))

\* C8: every change of the token file and of the cache file leads to a
\* complete content: in no state between two steps, where the process can be
\* killed or the file read, is a file that save_token or save_cache touched
\* truncated or partly written.
C8_AtomicWrites ==
    [][/\ tokenFile' # tokenFile => tokenFile'.tag = "File"
       /\ cacheFile' # cacheFile => cacheFile'.tag = "File"]_vars

\* C9: whenever the in-memory snapshot is replaced, the cache file holds the
\* new snapshot, also when the write to disk failed.
C9_DiskBeforeMemory ==
    [][(cache' # cache /\ cache' # None)
         => cacheFile' = File(cache'.val)]_vars

\* C10 as stated: whenever a fetcher fails with the credentials error,
\* get_data returns an error, with or without a cached snapshot.
C10_CredentialsErrorSurfaced ==
    \A p \in Procs :
        (/\ pc[p] = "return" /\ cmd[p] = "get_data"
         /\ evRes[p] = Err(CredErr) \/ taskRes[p] = Err(CredErr))
        => ret[p].tag = "Err"

\* C10 as amended: when a fetcher fails with the credentials error, get_data
\* returns an error only if no snapshot is in memory (the credentials error
\* itself when the events fetcher raised it); with a snapshot in memory it
\* returns Ok with that snapshot.
C10_CredentialsErrorUnlessCached ==
    \A p \in Procs :
        (/\ pc[p] = "return" /\ cmd[p] = "get_data"
         /\ evRes[p] = Err(CredErr) \/ taskRes[p] = Err(CredErr))
        => IF cache = None
             THEN /\ ret[p].tag = "Err"
                  /\ evRes[p] = Err(CredErr) => ret[p] = Err(CredErr)
             ELSE ret[p] = Ok(cache.val)

\* C10's case: both fetchers failed with the credentials error while a
\* snapshot is cached, and get_data returned the snapshot.
C10_Witness ==
    \E p \in Procs :
        /\ pc[p] = "return" /\ cmd[p] = "get_data"
        /\ evRes[p] = Err(CredErr)
        /\ taskRes[p] = Err(CredErr)
        /\ cache # None
        /\ ret[p] = Ok(cache.val)

\* Where a command is while it is inside get_events, and inside get_tasks.
InGetEvents == {"ev_token", "cal_token", "cal_list", "ev_fetch"}

InGetTasks == {"tasks_token", "tasks_list"}

\* C11: when get_events returns to get_data it has called get_access_token
\* exactly once, and so has get_tasks when it returns.
C11_OneTokenCallPerFetcher ==
    [][\A p \in Procs :
         /\ (pc[p] \in InGetEvents /\ pc'[p] \notin InGetEvents
               /\ cmd'[p] = "get_data")
            => calls[p] = 1
         /\ (pc[p] \in InGetTasks /\ pc'[p] \notin InGetTasks
               /\ cmd'[p] = "get_data")
            => calls[p] = 1]_vars

\* An invocation has a request in flight (a fetcher's API request, a
\* token-endpoint request) or waits for the OAuth callback.
NetworkBusy(p) ==
    \/ pc[p] \in {"cal_list", "ev_fetch", "tasks_list", "ct_patch"}
    \/ gpc[p] \in {"refresh_wait", "oauth_recv", "oauth_exchange"}

\* C12: in every interleaving of get_data and get_cached_data calls, an
\* invocation that holds the snapshot mutex is at the copy or the
\* replacement of the in-memory snapshot, is not inside get_access_token and
\* has no request in flight; so whoever a waiting get_cached_data waits for
\* is not doing network activity.
C12_LockOnlyForCopy ==
    \A p \in Procs :
        /\ lock = p
           => /\ pc[p] \in {"store_locked", "fallback_locked", "cached_locked"}
              /\ gpc[p] \in {"idle", "done"}
              /\ ~NetworkBusy(p)
        /\ (pc[p] = "cached_lock" /\ lock # "free")
           => ~NetworkBusy(lock)

\* C12's case: get_cached_data holds the mutex for its copy while another
\* invocation's get_data waits for the OAuth callback.
C12_Witness ==
    \E p, q \in Procs :
        /\ pc[p] = "cached_locked" /\ lock = p
        /\ cmd[q] = "get_data" /\ gpc[q] = "oauth_recv"

\* C13: no step of a complete_task call, its get_access_token included,
\* changes the in-memory snapshot or the cache file, whatever it returns; so
\* the snapshot get_cached_data copies afterwards is the one from before,
\* with the completed task still in it.
C13_CompleteTaskKeepsCache ==
    [][\A p \in Procs :
         (cmd'[p] = "complete_task"
            /\ (complete_task(p) \/ get_access_token(p)))
         => cache' = cache /\ cacheFile' = cacheFile]_vars

\* C13's case: complete_task has returned Ok(true) and the cached snapshot
\* still holds the task.
C13_Witness ==
    \E p \in Procs :
        /\ pc[p] = "return" /\ cmd[p] = "complete_task"
        /\ ret[p] = Ok(TRUE)
        /\ cache = Some(CachedData(<<"e1">>, <<"t1">>))
        /\ cacheFile = File(CachedData(<<"e1">>, <<"t1">>))

\* C14: while the process runs (every step but its kill and restart, which
\* makes a new AppState from the cache file), an in-memory snapshot never
\* becomes empty, and a get_data that returns while there is one returns Ok.
C14_OnceCachedNeverError ==
    [][\/ Restart
       \/ /\ cache # None => cache' # None
          /\ \A p \in Procs :
               (/\ cache # None
                /\ cmd'[p] = "get_data"
                /\ pc[p] # "return" /\ pc'[p] = "return")
               => ret'[p].tag = "Ok"]_vars

\* C14's case: a snapshot set by a successful refresh (events e2) is in
\* memory, the events fetcher failed and get_data returned the snapshot.
C14_Witness ==
    \E p \in Procs :
        /\ pc[p] = "return" /\ cmd[p] = "get_data"
        /\ evRes[p].tag = "Err"
        /\ cache # None
        /\ cache.val.events = <<"e2">>
        /\ ret[p] = Ok(cache.val)

\* C18: in a get_data, whenever get_events returns, with a result or with an
\* error (a token error included), get_tasks is called next and starts a
\* get_access_token call of its own; get_tasks' result leaves get_events'
\* result as it is, and get_data returns only after both have returned.
C18_BothFetchersRun ==
    [][\A p \in Procs :
         cmd'[p] = "get_data"
         => /\ evRes'[p] # evRes[p]
               => /\ pc[p] \in InGetEvents
                  /\ pc'[p] = "tasks_token"
                  /\ gpc'[p] = "start" /\ gatRes'[p] = Pending
                  /\ reqs'[p] = {}
                  /\ taskRes'[p] = Pending
            /\ taskRes'[p] # taskRes[p]
               => /\ pc[p] \in InGetTasks
                  /\ evRes'[p] = evRes[p] /\ evRes[p] # Pending
            /\ (pc[p] # "return" /\ pc'[p] = "return")
               => evRes[p] # Pending /\ taskRes[p] # Pending]_vars

\* C18's case: get_events failed in its interactive authorization, and
\* get_tasks' own get_access_token call is in an interactive authorization
\* again, waiting for the callback.
C18_Witness ==
    \E p \in Procs :
        /\ cmd[p] = "get_data" /\ pc[p] = "tasks_token"
        /\ evRes[p] = Err(NoCodeErr)
        /\ gpc[p] = "oauth_recv"
        /\ {"oauth", "browser"} \subseteq reqs[p]

\* C20: a get_access_token call that ends in its interactive authorization
\* (listener not bound, callback not read, no code in it, exchange refused
\* or unparseable) returns an error and has not written the token file: no
\* step of the call before save_token changes the file.  When the callback
\* brought no code, no exchange request was sent.
C20_OAuthFailureKeepsToken ==
    [][\A p \in Procs :
         /\ (gpc[p] \in {"oauth_start", "oauth_recv", "oauth_exchange"}
               /\ gpc'[p] = "done")
            => /\ gatRes'[p].tag = "Err"
               /\ gatRes'[p].err \in OAuthErrors
               /\ "save_token" \notin reqs'[p]
               /\ tokenFile' = tokenFile
               /\ gatRes'[p].err \in {BindErr, RecvErr, UrlErr, NoCodeErr}
                    => "exchange" \notin reqs'[p]
         /\ (get_access_token(p) /\ gpc[p] \notin {"save_open", "save_write"})
            => tokenFile' = tokenFile]_vars

\* C20's case: the interactive authorization that followed a failed refresh
\* got a callback without code: the call returned the error, sent no
\* exchange request, and the token file still holds the expired token.
C20_Witness ==
    \E p \in Procs :
        /\ gpc[p] = "done"
        /\ gatRes[p] = Err(NoCodeErr)
        /\ {"refresh", "oauth"} \subseteq reqs[p]
        /\ "exchange" \notin reqs[p]
        /\ tokenFile = File(Token("a0", Some("r0"), Some(Buffer)))

\* How often x occurs in the sequence s.
Count(s, x) == Cardinality({i \in 1..Len(s) : s[i] = x})

\* How often the response of calendar i, if it succeeded, lists an item
\* with this id.
ListedCount(i, id) ==
    IF responses[i].tag = "Ok" /\ responses[i].val # None
      THEN Cardinality({k \in 1..Len(responses[i].val.val) :
             LET item == responses[i].val.val[k]
             IN  (IF item.id = None THEN "" ELSE item.id.val) = id})
      ELSE 0

\* C15: once the loop over the calendars has begun, get_events returns
\* nothing but Ok: when it returns, each calendar whose request succeeded
\* has each of its items in the result as often as it listed it, a calendar
\* whose request failed has none, and the result is empty when every request
\* failed.
C15_CalendarFailuresSkipped ==
    /\ events_ret.tag \in {"Pending", "Ok"}
    /\ events_pc = "return"
       => /\ events_ret.tag = "Ok"
          /\ \A i \in 1..Len(responses) :
               \A id \in {"", "allday", "morning", "late", "nostart"} :
                 Cardinality({k \in 1..Len(events_ret.val) :
                                /\ events_ret.val[k].calendar = i
                                /\ events_ret.val[k].id = id})
                   = ListedCount(i, id)
          /\ \A k \in 1..Len(events_ret.val) :
               events_ret.val[k].calendar \in 1..Len(responses)
          /\ (\A i \in 1..Len(responses) : responses[i].tag = "Err")
               => events_ret = Ok(<<>>)

\* C15's case: the request of the first of two calendars failed, the second
\* listed two events, and get_events returned Ok with those two.
C15_Witness ==
    /\ events_pc = "return"
    /\ Len(responses) = 2
    /\ responses[1] = Err("status")
    /\ responses[2].tag = "Ok"
    /\ events_ret.tag = "Ok"
    /\ Len(events_ret.val) = 2
    /\ \A k \in 1..2 : events_ret.val[k].calendar = 2

\* a comes before b, or ranks with it, in the order of the claim: date
\* ascending, all-day before timed on a date, time ascending.
InOrder(a, b) ==
    \/ a.date < b.date
    \/ /\ a.date = b.date
       /\ \/ a.is_all_day /\ ~b.is_all_day
          \/ a.is_all_day = b.is_all_day /\ a.time <= b.time

\* C16: the sort changes all_events into a permutation of itself, and the
\* list get_events returns is in order: date ascending, then all-day before
\* timed, then time ascending.
C16_EventsSorted ==
    [][EventsSorted
         => /\ events_ret'.tag = "Ok"
            /\ Len(events_ret'.val) = Len(all_events)
            /\ \A i \in 1..Len(all_events) :
                 Count(events_ret'.val, all_events[i])
                   = Count(all_events, all_events[i])
            /\ \A i, j \in 1..Len(events_ret'.val) :
                 i < j => InOrder(events_ret'.val[i], events_ret'.val[j])
      ]_vars

\* C16's case: the all-day event of day 2 and the 09:00 event of day 2 came
\* from one calendar, the 23:00 event of day 1 from the next; the result has
\* the 23:00 event first, then the all-day event, then the 09:00 event.
C16_Witness ==
    /\ events_pc = "return"
    /\ Len(responses) = 2
    /\ events_ret.tag = "Ok"
    /\ Len(events_ret.val) = 3
    /\ [k \in 1..3 |-> events_ret.val[k].id] = <<"late", "allday", "morning">>
    /\ [k \in 1..3 |-> events_ret.val[k].calendar] = <<2, 1, 1>>
    /\ [k \in 1..3 |-> events_ret.val[k].date] = <<1, 2, 2>>
    /\ [k \in 1..3 |-> events_ret.val[k].time] = <<23, AllDay, 9>>

\* The task lists of the account, in the order get_tasks visits them.
AllLists == IF tasklists = None THEN <<>> ELSE tasklists.val

\* C17: a list whose name is not "I dag" or "Min huskeliste" is never
\* requested; and every task get_tasks returns comes from a list with one of
\* these names that was requested, has a title that is not empty and is not
\* completed: of the entries listed, only the open ones are returned.
C17_TasksFiltered ==
    /\ \A i \in 1..Len(visited) :
         visited[i] # Skipped
           => AllLists[i].title \in {Some("I dag"), Some("Min huskeliste")}
    /\ tasks_pc = "return"
       => /\ tasks_ret.tag = "Ok"
          /\ \A k \in 1..Len(tasks_ret.val) :
               LET task == tasks_ret.val[k] IN
                 /\ \E i \in 1..Len(visited) :
                      /\ AllLists[i].id = task.tasklist_id
                      /\ AllLists[i].title
                           \in {Some("I dag"), Some("Min huskeliste")}
                      /\ visited[i].tag = "Ok"
                 /\ task.title # ""
                 /\ ~task.completed
                 /\ task.id \notin {"done", "blank", "untitled"}

\* C17's case: the first list is outside the allow-list and was not
\* requested; the second, "I dag", listed an open task and a completed one,
\* and get_tasks returned the open one alone.
C17_Witness ==
    /\ tasks_pc = "return"
    /\ Len(visited) = 2
    /\ AllLists[1].title = Some("Arbejde")
    /\ visited[1] = Skipped
    /\ visited[2].tag = "Ok"
    /\ visited[2].val # None
    /\ Len(visited[2].val.val) = 2
    /\ visited[2].val.val[1].id = Some("open")
    /\ visited[2].val.val[2].id = Some("done")
    /\ tasks_ret.tag = "Ok"
    /\ Len(tasks_ret.val) = 1
    /\ tasks_ret.val[1].id = "open"
    /\ tasks_ret.val[1].tasklist_id = "l2"

\* C19: in an interactive authorization the challenge is the SHA-256 /
\* base64url derivation of the attempt's verifier; the authorization URL
\* carries that challenge with method S256; the code_verifier of the
\* authorization-code request is the verifier whose challenge the URL of
\* the same attempt carries, and its redirect_uri is the URL's; the token
\* file holds nothing but the Token built from the token response; and the
\* verifier of an attempt is the verifier of no earlier attempt.
C19_PkceBinding ==
    /\ code_verifier # None =>
          /\ code_challenge = Some(Base64Url(Sha256(code_verifier.val)))
          /\ code_verifier.val \notin spent
    /\ auth_url # None /\ code_verifier # None =>
          /\ UrlDecode(auth_url.val.code_challenge) = code_challenge.val
          /\ auth_url.val.code_challenge_method = "S256"
          /\ UrlDecode(auth_url.val.redirect_uri) = redirect_uri.val
    /\ exchange # None =>
          /\ Base64Url(Sha256(exchange.val.code_verifier))
               = UrlDecode(auth_url.val.code_challenge)
          /\ exchange.val.redirect_uri
               = UrlDecode(auth_url.val.redirect_uri)
          /\ exchange.val.code_verifier \notin spent \/ flow_pc = "return"
    /\ tokenFile.tag = "File" =>
          tokenFile.val \in {ExchangedToken(r, now) : r \in TokenResponses}

\* The second attempt has sent its authorization-code request and the first
\* one's token is in the token file.
C19_Witness ==
    /\ flow_pc = "exchange"
    /\ rng = 2
    /\ Cardinality(spent) = 1
    /\ exchange # None
    /\ exchange.val.code_verifier = code_verifier.val
    /\ tokenFile.tag = "File"

\* C21: when credentials.json is missing or does not parse, the first step
\* of get_access_token returns the credentials error, and the call has by
\* then neither read nor written the token file, sent no refresh or
\* exchange request and started no interactive authorization, whatever the
\* token file holds.
C21_CredentialsErrorFirst ==
    [][\A p \in Procs :
         /\ gpc[p] = "start" /\ ~credsOk /\ get_access_token(p) =>
               /\ gatRes'[p] = Err(CredErr)
               /\ gpc'[p] = "done"
               /\ reqs'[p] = {}
               /\ tokenFile' = tokenFile
         /\ gatRes'[p] = Err(CredErr) => reqs'[p] = {}]_vars

\* The call failed on the credentials although the token file holds a token
\* that the 60-second rule accepts.
C21_Witness ==
    /\ gatRes["p1"] = Err(CredErr)
    /\ gpc["p1"] = "done"
    /\ reqs["p1"] = {}
    /\ ~credsOk
    /\ tokenFile.tag = "File"
    /\ TokenValid(tokenFile.val, now)

\* C22: when two concurrent get_data calls whose fetchers succeeded have
\* both returned, the in-memory snapshot and the cache file hold the same
\* snapshot.  Stated for the returns that leave the snapshot of one of the
\* two calls in the cache file: each such state is also reached with every
\* write to the file succeeding.
C22_ConcurrentCallsAgree ==
    /\ \A p \in Procs :
          /\ pc[p] = "return"
          /\ cmd[p] = "get_data"
          /\ evRes[p].tag = "Ok"
          /\ taskRes[p].tag = "Ok"
    /\ \E p \in Procs : cacheFile = File(data(p))
    => /\ cache # None
       /\ cacheFile = File(cache.val)

\* How server.recv() returning ends the wait: with its own error, or with a
\* request, whose URL does not parse, holds no code, or holds one.
RecvReturned(p) ==
    \/ gpc'[p] = "done" /\ gatRes'[p] = Err(RecvErr)
    \/ gpc'[p] = "done" /\ gatRes'[p] \in {Err(UrlErr), Err(NoCodeErr)}
    \/ gpc'[p] = "oauth_exchange"

\* C23 as stated: get_access_token leaves the wait for the redirect only
\* when a callback request has arrived.
C23_ReturnsOnlyOnRequest ==
    [][\A p \in Procs :
         gpc[p] = "oauth_recv" /\ gpc'[p] # "oauth_recv" =>
            /\ RecvReturned(p)
            /\ gatRes'[p] # Err(RecvErr)]_vars

\* C23, amended: get_access_token leaves the wait for the redirect only
\* when server.recv() returns, with a request or with its own error, and
\* nothing else ends the wait; as long as it waits, the command that called
\* it stays where it is and returns nothing, cached snapshot or not; and
\* when the callback arrives and the token endpoint answers,
\* get_access_token returns.
C23_NoTimeoutOnCallback ==
    /\ [][\A p \in Procs :
            /\ gpc[p] = "oauth_recv" /\ gpc'[p] # "oauth_recv" =>
                  RecvReturned(p)
            /\ gpc[p] = "oauth_recv" /\ gpc'[p] = "oauth_recv" =>
                  /\ pc'[p] = pc[p]
                  /\ ret'[p] = ret[p]
                  /\ gatRes'[p] = Pending]_vars
    /\ \A p \in Procs :
          gpc[p] = "oauth_recv" ~> gpc[p] \in {"done", "idle"}

\* get_data waits for the redirect inside get_events although a snapshot
\* is cached.
C23_Witness ==
    /\ gpc["p1"] = "oauth_recv"
    /\ cmd["p1"] = "get_data"
    /\ pc["p1"] \in InGetEvents
    /\ ret["p1"] = Pending
    /\ cache # None

====
